---- MODULE Spec2Model ----
(***************************************************************************)
(* Model of src/app.js: the calendar helpers, the event-day predicates and *)
(* the day-by-day growth simulation driven by runCalc.                     *)
(*                                                                         *)
(* A Date is modelled by its local calendar fields                         *)
(* [year, month, day] (getFullYear, getMonth with January = 0, getDate);   *)
(* every Date the program builds is a local midnight.  A JavaScript number *)
(* holding money, a rate or a duration is modelled in fixed point, Scale   *)
(* units to one, with products rounded to the nearest unit.                *)
(***************************************************************************)
EXTENDS Integers, Sequences, FiniteSets, TLC

VARIABLES pc, input, startDate, endDate, compoundAnchor, date, balance,
          labels, series, finalBalance, call, ret

vars == <<pc, input, startDate, endDate, compoundAnchor, date, balance,
          labels, series, finalBalance, call, ret>>

simVars == <<pc, input, startDate, endDate, compoundAnchor, date, balance,
             labels, series, finalBalance>>

(***************************************************************************)
(* Bounds of the model.                                                    *)
(***************************************************************************)
MaxTimeValue == 2
NumStartDays == 10
MaxMonths == 13
MaxYears == 2
MaxWeeks == 9

(***************************************************************************)
(* Numbers.                                                                *)
(***************************************************************************)
Scale == 10 * 100

Min(a, b) == IF a <= b THEN a ELSE b
Max(a, b) == IF a >= b THEN a ELSE b

\* The % operator of JavaScript: the result takes the sign of the dividend.
JsRem(a, b) == IF a >= 0 THEN a % b ELSE -((-a) % b)

(***************************************************************************)
(* Dates: day numbers (days since 1970-01-01) and calendar fields.         *)
(***************************************************************************)
\* The day number of the day dt of a month of a year, as the language's
\* MakeDay computes it: month and dt may lie outside their calendar range
\* and are carried over.  t is <<year, month, dt>>.
DayNumber ==
  [t \in Int \X Int \X Int |->
     LET ym  == t[1] + (t[2] \div 12)
         mn  == (t[2] % 12) + 1
         y   == IF mn <= 2 THEN ym - 1 ELSE ym
         era == y \div 400
         yoe == y - era * 400
         mp  == IF mn > 2 THEN mn - 3 ELSE mn + 9
         doy == (153 * mp + 2) \div 5
         doe == yoe * 365 + (yoe \div 4) - (yoe \div 100) + doy
     IN  era * 146097 + doe - 719468 + (t[3] - 1)]

MakeDay(year, month, dt) == DayNumber[<<year, month, dt>>]

\* The calendar fields of a day number.
DayFields ==
  [z \in Int |->
     LET s   == z + 719468
         era == s \div 146097
         doe == s - era * 146097
         yoe == (doe - (doe \div 1460) + (doe \div 36524) - (doe \div 146096)) \div 365
         doy == doe - (365 * yoe + (yoe \div 4) - (yoe \div 100))
         mp  == (5 * doy + 2) \div 153
         d   == doy - ((153 * mp + 2) \div 5) + 1
         m   == IF mp < 10 THEN mp + 3 ELSE mp - 9
         y   == yoe + era * 400 + (IF m <= 2 THEN 1 ELSE 0)
     IN  [year |-> y, month |-> m - 1, day |-> d]]

FromDay(z) == DayFields[z]

\* A year from 0 to 99 given to the Date constructor or to Date.UTC means
\* 1900 + year.
FullYear(y) == IF 0 <= y /\ y <= 99 THEN 1900 + y ELSE y

\* new Date(year, monthIndex, day)
NewDate(y, m, d) == FromDay(MakeDay(FullYear(y), m, d))

\* Date.UTC(year, monthIndex, day) / MS_PER_DAY: UTC midnights are whole
\* multiples of MS_PER_DAY, so the quotient is the day number.
DateUTC(y, m, d) == MakeDay(FullYear(y), m, d)

\* The time value of a local midnight, as far as <= on Dates reads it.
TimeValue(dt) == MakeDay(dt.year, dt.month, dt.day)

\* date.getDay(): 0 is Sunday; 1970-01-01 was a Thursday.
GetDay(dt) == (TimeValue(dt) + 4) % 7

normalizeDate(dt) == NewDate(dt.year, dt.month, dt.day)

\* addDays with the days added twice over.
addDaysTwice(dt, days) == normalizeDate(NewDate(dt.year, dt.month, dt.day + 2 * days))

addDays(dt, days) == normalizeDate(NewDate(dt.year, dt.month, dt.day + days))

daysBetween(start, end) ==
  DateUTC(end.year, end.month, end.day) - DateUTC(start.year, start.month, start.day)

daysInMonth(year, monthIndex) == NewDate(year, monthIndex + 1, 0).day

\* addMonths without the clamp of the day: the constructor carries the
\* surplus days into the following month.
addMonthsSpill(dt, months) == NewDate(dt.year, dt.month + months, dt.day)

addMonths(dt, months) ==
  LET targetMonth     == dt.month + months
      targetYear      == dt.year + (targetMonth \div 12)
      normalizedMonth == JsRem(JsRem(targetMonth, 12) + 12, 12)
      day             == Min(dt.day, daysInMonth(targetYear, normalizedMonth))
  IN  NewDate(targetYear, normalizedMonth, day)

addYears(dt, years) == addMonths(dt, years * 12)

\* isWeekday with Saturday let through.
isWeekdayWithSaturday(dt) ==
  LET day == GetDay(dt) IN day >= 1 /\ day <= 6

isWeekday(dt) ==
  LET day == GetDay(dt) IN day >= 1 /\ day <= 5

\* isMonthlyEvent without the clamp to the length of the month.
isMonthlyEventExact(dt, start) == dt.day = start.day

isMonthlyEvent(dt, start) ==
  LET targetDay == Min(start.day, daysInMonth(dt.year, dt.month))
  IN  dt.day = targetDay

\* isWeeklyEvent on the difference of the days of month.
isWeeklyEventByDayOfMonth(dt, start) == JsRem(dt.day - start.day, 7) = 0

isWeeklyEvent(dt, start) == JsRem(daysBetween(start, dt), 7) = 0

isEventDay(dt, start, frequency) ==
  IF frequency = "weekday" THEN isWeekday(dt)
  ELSE IF frequency = "weekly" THEN isWeeklyEvent(dt, start)
  ELSE isMonthlyEvent(dt, start)

getEndDate(start, timeValue, timeUnit) ==
  IF timeUnit = "weeks" THEN addDays(start, timeValue * 7)
  ELSE IF timeUnit = "months" THEN addMonths(start, timeValue)
  ELSE addYears(start, timeValue)

getCompoundAnchor(start, compoundFrequency) ==
  IF compoundFrequency = "weekly" THEN addDays(start, 7)
  ELSE IF compoundFrequency = "monthly" THEN addMonths(start, 1)
  ELSE start

(***************************************************************************)
(* Numbers of the simulation.                                              *)
(***************************************************************************)
\* a * b for two fixed-point numbers, rounded to the nearest unit.
Times(a, b) == (a \div Scale) * b + (((a % Scale) * b + (Scale \div 2)) \div Scale)

\* a / n for a fixed-point number and a whole number, rounded likewise.
Over(a, n) == (a + (n \div 2)) \div n

\* applyInterest with the factor ratePerPeriod / 100, the 1 left out.
applyInterestRateOnly(bal, ratePerPeriod) ==
  IF ratePerPeriod <= 0 THEN bal
  ELSE Times(bal, Over(ratePerPeriod, 100))

applyInterest(bal, ratePerPeriod) ==
  IF ratePerPeriod <= 0 THEN bal
  ELSE Times(bal, Scale + Over(ratePerPeriod, 100))

\* Number(balance.toFixed(2)): the nearest multiple of 0.01, the larger one
\* on a tie.
Cent == Scale \div 100
toFixed2(x) == ((x + (Cent \div 2)) \div Cent) * Cent

\* date.toLocaleDateString(): month/day/year, the month counted from 1.
toLocaleDateString(dt) == <<dt.month + 1, dt.day, dt.year>>

\* Number(text) of a form field, and parseNumber on it.
Num(v) == [finite |-> TRUE, val |-> v]
NotANumber == [finite |-> FALSE, val |-> 0]
parseNumber(value, fallback) == IF value.finite THEN value.val ELSE fallback

\* Math.floor of a fixed-point number, as a whole number.
Floor(x) == x \div Scale

(***************************************************************************)
(* The runs the model takes: what the form holds and what day it is when   *)
(* runCalc reads them.                                                     *)
(***************************************************************************)
\* Every day of the given years: days 1 to 28 of each month and its last
\* three days.
DatesOfYears(years) == {NewDate(y, m, d) : y \in years, m \in 0..11, d \in 1..28}
                       \cup {NewDate(y, m + 1, 0 - k) : y \in years, m \in 0..11, k \in 0..2}

\* Windows of NumStartDays consecutive days each, laid over the ends of
\* January (common year), December, February (leap year) and March.
Window(y, m, d) == {addDays(NewDate(y, m, d), k) : k \in 0..(NumStartDays - 1)}

YearStartDates == Window(2023, 0, 26) \cup Window(2024, 1, 23)

StartDates == YearStartDates \cup Window(2023, 11, 26) \cup Window(2024, 2, 26)

AllStartDates == DatesOfYears({2023, 2024})

CompoundFrequencies == {"weekly", "monthly", "daily"}
DepositFrequencies == {"weekday", "weekly", "monthly"}
TimeUnits == {"weeks", "months", "years"}

\* The text of the time-value field: whole numbers, a fraction, zero and text
\* that is no number.
TimeTexts == {Num(k * Scale) : k \in 1..MaxTimeValue}
             \cup {Num(0), Num(Scale + (Scale \div 2)), NotANumber}

\* The texts of the three money fields: starting amount, rate, deposit.
Growing  == [startingAmount |-> Num(1000 * Scale), annualRate |-> Num(10 * Scale),
             depositAmount |-> Num(0)]
Saving   == [startingAmount |-> Num(0), annualRate |-> Num(0),
             depositAmount |-> Num(100 * Scale)]
Both     == [startingAmount |-> Num(250 * Scale + 4), annualRate |-> Num(5 * Scale),
             depositAmount |-> Num(40 * Scale + 3)]
Clamped  == [startingAmount |-> Num(75 * Scale + 6), annualRate |-> NotANumber,
             depositAmount |-> Num(0 - Scale)]
MoneyTexts == {Growing, Saving, Both, Clamped}

Runs ==
  {r \in [today : AllStartDates, money : MoneyTexts,
          compoundFrequency : CompoundFrequencies,
          depositFrequency : DepositFrequencies,
          timeValue : TimeTexts, timeUnit : TimeUnits] :
     \* a frequency that the amounts leave without effect is held at "monthly"
     /\ (r.money \in {Growing, Clamped} => r.depositFrequency = "monthly")
     /\ (r.money \in {Saving, Clamped} => r.compoundFrequency = "monthly")
     \* horizons in years: the growing scenario, from two of the windows
     /\ (r.timeUnit = "years" =>
           /\ r.money = Growing /\ r.compoundFrequency = "monthly"
           /\ r.today \in YearStartDates)
     \* horizons in months: from the windows
     /\ (r.timeUnit = "months" => r.today \in StartDates)
     \* horizons in weeks: from the windows, and weekday saving from any day
     /\ (r.timeUnit = "weeks" =>
           \/ r.today \in StartDates
           \/ r.money = Saving /\ r.depositFrequency = "weekday")}

(***************************************************************************)
(* The simulation.                                                         *)
(***************************************************************************)
NoDate == [year |-> 0, month |-> 0, day |-> 0]
NoInput == [startingAmount |-> 0, annualRate |-> 0, compoundFrequency |-> "",
            depositAmount |-> 0, depositFrequency |-> "", timeValue |-> 0,
            timeUnit |-> ""]
NoCall == [fn |-> "", date |-> NoDate, other |-> NoDate, n |-> 0]
NoRet == [done |-> FALSE, date |-> NoDate, bool |-> FALSE]

\* runCalc up to the call of simulateGrowth: the fields read and clamped.
ReadForm(r) ==
  [startingAmount    |-> Max(0, parseNumber(r.money.startingAmount, 0)),
   annualRate        |-> Max(0, parseNumber(r.money.annualRate, 0)),
   compoundFrequency |-> r.compoundFrequency,
   depositAmount     |-> Max(0, parseNumber(r.money.depositAmount, 0)),
   depositFrequency  |-> r.depositFrequency,
   timeValue         |-> Max(1, Floor(parseNumber(r.timeValue, Scale))),
   timeUnit          |-> r.timeUnit]

Init ==
  /\ pc = "idle"
  /\ input = NoInput
  /\ startDate = NoDate /\ endDate = NoDate /\ compoundAnchor = NoDate
  /\ date = NoDate
  /\ balance = 0
  /\ labels = <<>> /\ series = <<>>
  /\ finalBalance = 0
  /\ call = NoCall /\ ret = NoRet

\* runCalc, then simulateGrowth up to the first test of the loop.
RunCalc ==
  /\ pc = "idle"
  /\ \E r \in Runs :
       LET in    == ReadForm(r)
           start == normalizeDate(r.today)
       IN  /\ input' = in
           /\ startDate' = start
           /\ endDate' = getEndDate(start, in.timeValue, in.timeUnit)
           /\ balance' = in.startingAmount
           /\ compoundAnchor' = getCompoundAnchor(start, in.compoundFrequency)
           /\ date' = start
  /\ labels' = <<>> /\ series' = <<>>
  /\ finalBalance' = 0
  /\ pc' = "loop"
  /\ UNCHANGED <<call, ret>>

\* date < endDate
LoopCondStrict(dt, end) == TimeValue(dt) < TimeValue(end)

\* date <= endDate
LoopCond(dt, end) == TimeValue(dt) <= TimeValue(end)

\* The deposit step of one day.
Deposited(bal, dt) ==
  IF input.depositAmount > 0 /\ isEventDay(dt, startDate, input.depositFrequency)
  THEN bal + input.depositAmount
  ELSE bal

\* The interest step of one day.
Compounded(bal, dt) ==
  IF isEventDay(dt, compoundAnchor, input.compoundFrequency)
  THEN applyInterest(bal, input.annualRate)
  ELSE bal

\* The body with interest applied before the deposit.
DayBalanceInterestFirst(bal, dt) == Deposited(Compounded(bal, dt), dt)

\* The balance after the body of the loop has run for day dt.
DayBalance(bal, dt) == Compounded(Deposited(bal, dt), dt)

\* One iteration: deposit, interest, recordPoint, then the step to the next day.
LoopStep ==
  /\ pc = "loop"
  /\ LoopCond(date, endDate)
  /\ balance' = DayBalance(balance, date)
  /\ labels' = Append(labels, toLocaleDateString(date))
  /\ series' = Append(series, toFixed2(balance'))
  /\ date' = addDays(date, 1)
  /\ UNCHANGED <<pc, input, startDate, endDate, compoundAnchor, finalBalance, call, ret>>

\* The loop ends and simulateGrowth returns its result to updateUI.
Return ==
  /\ pc = "loop"
  /\ ~LoopCond(date, endDate)
  /\ finalBalance' = balance
  /\ pc' = "done"
  /\ UNCHANGED <<input, startDate, endDate, compoundAnchor, date, balance,
                 labels, series, call, ret>>

\* The result has been drawn and is dropped: every run rebuilds its own
\* balance, labels and series, and the next submit starts from nothing.
Discard ==
  /\ pc = "done"
  /\ pc' = "idle"
  /\ input' = NoInput
  /\ startDate' = NoDate /\ endDate' = NoDate /\ compoundAnchor' = NoDate
  /\ date' = NoDate
  /\ balance' = 0
  /\ labels' = <<>> /\ series' = <<>>
  /\ finalBalance' = 0
  /\ UNCHANGED <<call, ret>>

Next == RunCalc \/ LoopStep \/ Return \/ Discard

Spec == Init /\ [][Next]_vars

\* The loop runs to completion once entered: nothing yields inside it.
FairSpec == Spec /\ WF_vars(LoopStep) /\ WF_vars(Return)

(***************************************************************************)
(* The calendar helpers on their own: a call is drawn, then applied.       *)
(***************************************************************************)
CalDates == DatesOfYears({2023, 2024, 2100, 2400})

\* Anchors: every day of a 31-day month, and the last days of a leap
\* February and of a 30-day month.
AnchorDates == {NewDate(2024, 0, d) : d \in 1..31}
               \cup {NewDate(2024, 1, 28), NewDate(2024, 1, 29), NewDate(2024, 3, 30)}

\* The calls drawn: addMonths and addYears with offsets of either sign, a
\* date against an anchor, and the day n days after an anchor against it.
DrawCall ==
  \/ \E d \in CalDates, n \in (0 - MaxMonths)..MaxMonths :
       call = [fn |-> "addMonths", date |-> d, other |-> NoDate, n |-> n]
  \/ \E d \in CalDates, n \in (0 - MaxYears)..MaxYears :
       call = [fn |-> "addYears", date |-> d, other |-> NoDate, n |-> n]
  \/ \E d \in CalDates, a \in AnchorDates :
       call = [fn |-> "isMonthlyEvent", date |-> d, other |-> a, n |-> 0]
  \/ \E a \in CalDates, n \in 0..(7 * MaxWeeks + 6) :
       call = [fn |-> "isWeeklyEvent", date |-> addDays(a, n), other |-> a, n |-> n]

InitCal ==
  /\ pc = "idle"
  /\ input = NoInput
  /\ startDate = NoDate /\ endDate = NoDate /\ compoundAnchor = NoDate
  /\ date = NoDate
  /\ balance = 0
  /\ labels = <<>> /\ series = <<>>
  /\ finalBalance = 0
  /\ DrawCall
  /\ ret = NoRet

CallAddMonths ==
  /\ call.fn = "addMonths" /\ ~ret.done
  /\ ret' = [done |-> TRUE, date |-> addMonths(call.date, call.n), bool |-> FALSE]
  /\ UNCHANGED <<simVars, call>>

CallAddYears ==
  /\ call.fn = "addYears" /\ ~ret.done
  /\ ret' = [done |-> TRUE, date |-> addYears(call.date, call.n), bool |-> FALSE]
  /\ UNCHANGED <<simVars, call>>

CallIsMonthlyEvent ==
  /\ call.fn = "isMonthlyEvent" /\ ~ret.done
  /\ ret' = [done |-> TRUE, date |-> NoDate, bool |-> isMonthlyEvent(call.date, call.other)]
  /\ UNCHANGED <<simVars, call>>

CallIsWeeklyEvent ==
  /\ call.fn = "isWeeklyEvent" /\ ~ret.done
  /\ ret' = [done |-> TRUE, date |-> NoDate, bool |-> isWeeklyEvent(call.date, call.other)]
  /\ UNCHANGED <<simVars, call>>

NextCal == CallAddMonths \/ CallAddYears \/ CallIsMonthlyEvent \/ CallIsWeeklyEvent

SpecCal == InitCal /\ [][NextCal]_vars

(***************************************************************************)
(* The calendar, stated without the helpers.                               *)
(***************************************************************************)
LeapYear(y) == y % 4 = 0 /\ (y % 100 # 0 \/ y % 400 = 0)

MonthLength(y, m) ==
  IF m = 1 THEN (IF LeapYear(y) THEN 29 ELSE 28)
  ELSE IF m \in {3, 5, 8, 10} THEN 30
  ELSE 31

\* The date N months from dt: the month counted on, the day held to the
\* length of the month reached.
MonthsOn(dt, n) ==
  LET total == dt.year * 12 + dt.month + n
      ty    == total \div 12
      tm    == total % 12
  IN  [year |-> ty, month |-> tm, day |-> Min(dt.day, MonthLength(ty, tm))]

\* C5: addMonths(date, N) lands in the month N months from the date's month,
\* on day min(input day, length of that month), for negative N too, and
\* never spills into the following month; addYears(date, Y) is
\* addMonths(date, 12 * Y).
C5_AddMonthsClamps ==
  /\ (ret.done /\ call.fn = "addMonths") => ret.date = MonthsOn(call.date, call.n)
  /\ (ret.done /\ call.fn = "addYears") =>
        /\ ret.date = MonthsOn(call.date, 12 * call.n)
        /\ ret.date = addMonths(call.date, 12 * call.n)

\* January 31 of a leap year plus one month is February 29.
C5_Witness ==
  /\ ret.done /\ call.fn = "addMonths"
  /\ call.date = [year |-> 2024, month |-> 0, day |-> 31] /\ call.n = 1
  /\ ret.date = [year |-> 2024, month |-> 1, day |-> 29]

\* C6: isMonthlyEvent(date, anchor) is true iff the date's day of month is
\* min(anchor's day, length of the date's month); every month holds exactly
\* one matching day; an anchor on day 31 matches the last day of every month.
C6_MonthlyEventClamps ==
  (ret.done /\ call.fn = "isMonthlyEvent") =>
     LET y == call.date.year
         m == call.date.month
     IN  /\ ret.bool = (call.date.day = Min(call.other.day, MonthLength(y, m)))
         /\ Cardinality({d \in 1..MonthLength(y, m) :
                           isMonthlyEvent([year |-> y, month |-> m, day |-> d],
                                          call.other)}) = 1
         /\ (call.other.day = 31 =>
               (ret.bool = (call.date.day = MonthLength(y, m))))

\* An anchor on day 31 matches February 29 of a leap year.
C6_Witness ==
  /\ ret.done /\ call.fn = "isMonthlyEvent"
  /\ call.other.day = 31
  /\ call.date = [year |-> 2024, month |-> 1, day |-> 29]
  /\ ret.bool

\* C7: isWeeklyEvent(A + n days, A) is true when n is a multiple of 7 and
\* false when n = 7k + r with 1 <= r <= 6, across month, year and leap-day
\* boundaries.
C7_WeeklyPeriodic ==
  (ret.done /\ call.fn = "isWeeklyEvent") =>
     /\ call.date = FromDay(MakeDay(call.other.year, call.other.month, call.other.day) + call.n)
     /\ ret.bool = (call.n % 7 = 0)

\* Four weeks on from February 26 of a leap year, across the leap day.
C7_Witness ==
  /\ ret.done /\ call.fn = "isWeeklyEvent"
  /\ call.other = [year |-> 2024, month |-> 1, day |-> 26] /\ call.n = 28
  /\ call.date = [year |-> 2024, month |-> 2, day |-> 25]
  /\ ret.bool

(***************************************************************************)
(* The simulation's claims.                                                *)
(***************************************************************************)
\* The i-th simulated day, counted on the calendar from startDate.
DayAt(i) == FromDay(MakeDay(startDate.year, startDate.month, startDate.day) + i - 1)

LabelAt(i) == <<DayAt(i).month + 1, DayAt(i).day, DayAt(i).year>>

Last(seq) == seq[Len(seq)]

\* C1: labels and series have the same length, the i-th label is the i-th
\* calendar day from startDate, and the finished run holds
\* daysBetween(startDate, endDate) + 1 points.
C1_OnePointPerDay ==
  /\ Len(labels) = Len(series)
  /\ (pc = "loop" /\ Len(labels) > 0) => Last(labels) = LabelAt(Len(labels))
  /\ pc = "done" =>
       /\ Len(labels) = daysBetween(startDate, endDate) + 1
       /\ \A i \in 1..Len(labels) : labels[i] = LabelAt(i)

\* A one-year run across a leap day: 367 points.
C1_Witness ==
  /\ pc = "done" /\ input.timeUnit = "years" /\ input.timeValue = 1
  /\ Len(labels) = 367 /\ Len(series) = 367

\* C3: once the loop is entered the run reaches its return; each iteration
\* moves the date on by exactly one calendar day, and the loop is left on the
\* day after endDate.
C3_LoopTerminates ==
  /\ (pc = "loop") ~> (pc = "done")
  /\ [][(pc = "loop" /\ pc' = "loop") =>
          MakeDay(date'.year, date'.month, date'.day)
            = MakeDay(date.year, date.month, date.day) + 1]_vars
  /\ [](pc = "done" =>
          MakeDay(date.year, date.month, date.day)
            = MakeDay(endDate.year, endDate.month, endDate.day) + 1)

\* A two-month run has returned.
C3_Witness ==
  /\ pc = "done" /\ input.timeUnit = "months" /\ input.timeValue = 2
  /\ date = addDays(endDate, 1)

\* Monday to Friday, read off the calendar.
MondayToFriday(dt) == GetDay(dt) \in 1..5

\* C4: with a zero rate and weekday deposits of D > 0 the recorded balance
\* rises by D on every simulated day from Monday to Friday, day 0 included,
\* and stays level on Saturdays and Sundays; the final balance is the
\* starting amount plus D for every weekday of the window, which for two
\* weeks holds 15 days.
C4_WeekdayDeposits ==
  (pc \in {"loop", "done"} /\ input.annualRate = 0 /\ input.depositAmount > 0
     /\ input.depositFrequency = "weekday") =>
    /\ \A i \in 1..Len(series) :
         series[i] - (IF i = 1 THEN input.startingAmount ELSE series[i - 1])
           = (IF MondayToFriday(DayAt(i)) THEN input.depositAmount ELSE 0)
    /\ pc = "done" =>
         /\ finalBalance = input.startingAmount + input.depositAmount
              * Cardinality({i \in 1..Len(series) : MondayToFriday(DayAt(i))})
         /\ (input.timeUnit = "weeks" /\ input.timeValue = 2) => Len(series) = 15

\* Two weeks from a Monday: 11 weekdays, 1100 in the end.
C4_Witness ==
  /\ pc = "done" /\ input.annualRate = 0 /\ input.depositFrequency = "weekday"
  /\ input.startingAmount = 0 /\ input.depositAmount = 100 * Scale
  /\ input.timeUnit = "weeks" /\ input.timeValue = 2
  /\ GetDay(startDate) = 1
  /\ Len(series) = 15 /\ finalBalance = 1100 * Scale

IsDepositDay(dt) == input.depositAmount > 0 /\ isEventDay(dt, startDate, input.depositFrequency)
IsCompoundDay(dt) == isEventDay(dt, compoundAnchor, input.compoundFrequency)

\* One iteration of the loop has run.
Iterated == pc = "loop" /\ pc' = "loop" /\ Len(series') = Len(series) + 1

\* C9: on a day that is both a deposit day and a compounding day the deposit
\* is added first and earns that day's interest, and the point recorded for
\* the day is that balance rounded to two decimals.
C9_DepositThenInterest ==
  [][(Iterated /\ input.annualRate > 0 /\ IsDepositDay(date) /\ IsCompoundDay(date)) =>
       /\ balance' = Times(balance + input.depositAmount,
                           Scale + Over(input.annualRate, 100))
       /\ Last(series') = toFixed2(balance')]_vars

\* The day just recorded was a deposit day and a compounding day.
C9_Witness ==
  /\ pc = "loop" /\ Len(series) >= 2
  /\ input.annualRate > 0
  /\ IsDepositDay(addDays(date, 0 - 1)) /\ IsCompoundDay(addDays(date, 0 - 1))
  /\ Last(series) = toFixed2(balance)
  /\ Last(series) > series[Len(series) - 1] + input.depositAmount

\* C10, as amended: the balance never decreases from one day to the next and
\* is left alone by a day without deposit and without interest; the series
\* is non-decreasing, every entry is at least the starting amount rounded to
\* two decimals, and the last entry, its maximum, is the final balance
\* rounded to two decimals.
C10_NeverDecreasesRounded ==
  /\ [](pc \in {"loop", "done"} =>
          /\ \A i \in 1..Len(series) :
                /\ series[i] >= toFixed2(input.startingAmount)
                /\ i > 1 => series[i] >= series[i - 1]
          /\ pc = "done" =>
                /\ Last(series) = toFixed2(finalBalance)
                /\ \A i \in 1..Len(series) : series[i] <= Last(series))
  /\ [][Iterated =>
          /\ balance' >= balance
          /\ ((~IsDepositDay(date) /\ ~IsCompoundDay(date))
                \/ (input.depositAmount = 0 /\ input.annualRate = 0))
               => balance' = balance]_vars

\* A run with interest and deposits has returned above where it started.
C10_Witness ==
  /\ pc = "done" /\ input.annualRate > 0 /\ input.depositAmount > 0
  /\ Len(series) > 30
  /\ Last(series) = toFixed2(finalBalance)
  /\ finalBalance > input.startingAmount
  /\ series[1] < Last(series)

\* C10, as first stated: every recorded balance is at least the starting
\* amount, the series is non-decreasing, and the final balance is its maximum.
C10_NeverDecreases ==
  pc \in {"loop", "done"} =>
    /\ Len(series) > 0 => Last(series) >= input.startingAmount
    /\ Len(series) > 1 => Last(series) >= series[Len(series) - 1]
    /\ (pc = "done" /\ Len(series) > 0) => Last(series) <= finalBalance

RECURSIVE Compound(_, _, _)
\* bal after interest at the rate has been applied n times.
Compound(bal, rate, n) ==
  IF n = 0 THEN bal ELSE Compound(applyInterest(bal, rate), rate, n - 1)

Tolerance == 10 * Cent

Dist(a, b) == IF a >= b THEN a - b ELSE b - a

\* C2: a run of one year from 1000 at 10 with monthly compounding and no
\* deposit ends, from every start date, at 1000 x 1.10^12 within rounding
\* tolerance: interest is applied 12 times.
C2_TwelveCompoundings ==
  (pc = "done" /\ input.startingAmount = 1000 * Scale /\ input.annualRate = 10 * Scale
     /\ input.compoundFrequency = "monthly" /\ input.depositAmount = 0
     /\ input.timeValue = 1 /\ input.timeUnit = "years") =>
    Dist(finalBalance, Compound(1000 * Scale, 10 * Scale, 12)) <= Tolerance

\* The deposits made on the simulated days up to day number upto.
DepositsThrough(upto) ==
  input.depositAmount
    * Cardinality({k \in MakeDay(startDate.year, startDate.month, startDate.day)..upto :
                     IsDepositDay(FromDay(k))})

\* C8: with weekly or monthly compounding and a positive rate no interest is
\* applied on a simulated day before compoundAnchor, startDate included, and
\* the first multiplication of the balance happens on compoundAnchor.
C8_FirstCompoundingOnAnchor ==
  (pc = "loop" /\ Len(series) > 0 /\ input.annualRate > 0
     /\ input.compoundFrequency \in {"weekly", "monthly"}) =>
    LET recorded == MakeDay(date.year, date.month, date.day) - 1
        anchor   == MakeDay(compoundAnchor.year, compoundAnchor.month, compoundAnchor.day)
    IN  /\ recorded < anchor =>
             balance = input.startingAmount + DepositsThrough(recorded)
        /\ recorded = anchor =>
             balance = applyInterest(input.startingAmount + DepositsThrough(anchor),
                                     input.annualRate)

====
